---- MODULE Spec2Model ----
(***************************************************************************)
(* Model of the slug generator (text/slugify.ts), of the table loader      *)
(* (text/slugify_char_map.ts) and of the table compiler                    *)
(* (text/_slugify_char_map/build.ts).                                      *)
(*                                                                         *)
(* A string is a sequence of code points; a code point is written as a    *)
(* short TLA+ string ("a", "acute", "sigma", ...).  The code points of the *)
(* model stand for the Unicode classes the code distinguishes.             *)
(***************************************************************************)
EXTENDS Integers, Sequences, FiniteSets, TLC

(***************************************************************************)
(* Bounds                                                                  *)
(***************************************************************************)
\* the longest input drawn from all code points
MaxLen == 3
\* the longest run of separators between the two words of a phrase
MaxRun == 2
\* the number of rule lines the compiler reads
MaxLines == 2

(***************************************************************************)
(* Code points and their Unicode properties                                *)
(***************************************************************************)
AsciiLower == {"a", "b", "x", "y"}
AsciiUpper == {"A", "X"}
AsciiDigit == {"1"}
\* U+002D HYPHEN-MINUS
Hyphen == "-"
\* U+0301 COMBINING ACUTE ACCENT: general category Mn
Marks == {"acute"}
\* "aacute" is U+00E1 (canonically a + U+0301), "sigma" is U+03C3, "han" is
\* a CJK ideograph that the segmenter's dictionary holds as a word
Ideographs == {"han"}
NonAsciiLetters == {"aacute", "sigma"} \cup Ideographs
\* \p{L}
IsL(c) == c \in AsciiLower \cup AsciiUpper \cup NonAsciiLetters
\* \p{M}
IsM(c) == c \in Marks
\* \p{N}
IsN(c) == c \in AsciiDigit
\* [0-9a-zA-Z\-]
IsAsciiWord(c) == c \in AsciiLower \cup AsciiUpper \cup AsciiDigit \cup {Hyphen}
\* White space as String.prototype.trim() sees it
IsWhiteSpace(c) == c = " "
\* every code point of the model: letters, digits, marks, the hyphen, the
\* space, "!" (punctuation), "'" (apostrophe), "_" (connector punctuation),
\* "," and "(" and "." (punctuation that is also pattern syntax)
Chars ==
  AsciiLower \cup AsciiUpper \cup AsciiDigit \cup Marks \cup NonAsciiLetters
    \cup {Hyphen, " ", "!", "'", "_", ",", "(", "."}

(***************************************************************************)
(* Sequence helpers                                                        *)
(***************************************************************************)
RECURSIVE Flatten(_)
Flatten(ss) == IF ss = <<>> THEN <<>> ELSE Head(ss) \o Flatten(Tail(ss))

RECURSIVE JoinWith(_, _)
\* Array.prototype.join(sep)
JoinWith(ss, sep) ==
  IF ss = <<>> THEN <<>>
  ELSE IF Len(ss) = 1 THEN ss[1]
  ELSE ss[1] \o sep \o JoinWith(Tail(ss), sep)

SeqsUpTo(S, n) == UNION {[1..k -> S] : k \in 0..n}

(***************************************************************************)
(* String.prototype.trim / normalize / toLowerCase                         *)
(***************************************************************************)
RECURSIVE TrimStart(_)
TrimStart(s) ==
  IF s # <<>> /\ IsWhiteSpace(Head(s)) THEN TrimStart(Tail(s)) ELSE s

RECURSIVE TrimEnd(_)
TrimEnd(s) ==
  IF s # <<>> /\ IsWhiteSpace(s[Len(s)])
  THEN TrimEnd(SubSeq(s, 1, Len(s) - 1)) ELSE s

Trim(s) == TrimEnd(TrimStart(s))

\* canonical decomposition of one code point
Decompose(c) == IF c = "aacute" THEN <<"a", "acute">> ELSE <<c>>

\* String.prototype.normalize("NFD")
NFD(s) == Flatten([i \in 1..Len(s) |-> Decompose(s[i])])

RECURSIVE NFC(_)
\* String.prototype.normalize("NFC"): a starter followed by a mark it
\* composes with becomes the precomposed code point
NFC(s) ==
  IF Len(s) < 2 THEN s
  ELSE IF s[1] = "a" /\ s[2] = "acute"
       THEN <<"aacute">> \o NFC(SubSeq(s, 3, Len(s)))
       ELSE <<s[1]>> \o NFC(Tail(s))

LowerChar(c) == IF c = "A" THEN "a" ELSE IF c = "X" THEN "x" ELSE c

\* String.prototype.toLowerCase
ToLowerCase(s) == [i \in 1..Len(s) |-> LowerChar(s[i])]

\* input.trim().normalize("NFD").toLowerCase()
Prepare(s) == ToLowerCase(NFD(Trim(s)))

(***************************************************************************)
(* Intl.Segmenter("en-US", {granularity: "word"}): the word boundaries of  *)
(* UAX #29 and the rule status that makes a segment word-like              *)
(***************************************************************************)
WB(c) ==
  IF c \in Ideographs THEN "Ideographic"
  ELSE IF IsL(c) THEN "ALetter"
  ELSE IF IsN(c) THEN "Numeric"
  ELSE IF IsM(c) THEN "Extend"
  ELSE IF c = "_" THEN "ExtendNumLet"
  ELSE IF c \in {"'", "."} THEN "MidNumLetQ"
  ELSE IF c = "," THEN "MidNum"
  ELSE IF c = " " THEN "WSegSpace"
  ELSE "Other"

RECURSIVE PrevBase(_, _)
\* the last position <= k that does not hold an Extend code point (0: none)
PrevBase(s, k) ==
  IF k < 1 THEN 0
  ELSE IF WB(s[k]) # "Extend" THEN k ELSE PrevBase(s, k - 1)

RECURSIVE NextBase(_, _)
\* the first position >= k that does not hold an Extend code point (0: none)
NextBase(s, k) ==
  IF k > Len(s) THEN 0
  ELSE IF WB(s[k]) # "Extend" THEN k ELSE NextBase(s, k + 1)

ClassAt(s, k) == IF k = 0 THEN "none" ELSE WB(s[k])

\* TRUE when there is a word boundary between s[k] and s[k+1]
IsBoundary(s, k) ==
  LET l  == WB(s[k])
      r  == WB(s[k + 1])
      pi == PrevBase(s, k)
      p  == ClassAt(s, pi)
      pp == ClassAt(s, PrevBase(s, pi - 1))
      n  == ClassAt(s, NextBase(s, k + 2))
      AN == {"ALetter", "Numeric"}
  IN  \* WB3d
      IF l = "WSegSpace" /\ r = "WSegSpace" THEN FALSE
      \* WB4
      ELSE IF r = "Extend" THEN FALSE
      \* WB5, WB8, WB9, WB10
      ELSE IF p \in AN /\ r \in AN THEN FALSE
      \* WB6, WB7
      ELSE IF p = "ALetter" /\ r = "MidNumLetQ" /\ n = "ALetter" THEN FALSE
      ELSE IF pp = "ALetter" /\ p = "MidNumLetQ" /\ r = "ALetter" THEN FALSE
      \* WB11, WB12
      ELSE IF pp = "Numeric" /\ p \in {"MidNum", "MidNumLetQ"} /\ r = "Numeric"
        THEN FALSE
      ELSE IF p = "Numeric" /\ r \in {"MidNum", "MidNumLetQ"} /\ n = "Numeric"
        THEN FALSE
      \* WB13a, WB13b
      ELSE IF p \in AN \cup {"ExtendNumLet"} /\ r = "ExtendNumLet" THEN FALSE
      ELSE IF p = "ExtendNumLet" /\ r \in AN THEN FALSE
      \* WB999
      ELSE TRUE

RECURSIVE SegmentEnd(_, _)
\* the last position of the segment that starts at position i
SegmentEnd(s, i) ==
  IF i >= Len(s) THEN Len(s)
  ELSE IF IsBoundary(s, i) THEN i ELSE SegmentEnd(s, i + 1)

\* the rule status of a segment (isWordLike is status >= 100).  The status
\* comes from the last rule that matched: a segment that ends in a letter,
\* a digit or an ideograph (with the marks that follow it) is word-like; one
\* that ends in a connector is word-like when the connector continues a
\* word and no mark follows it; every other segment is not
IsWordLike(seg) ==
  LET b == PrevBase(seg, Len(seg))
  IN  /\ b # 0
      /\ \/ WB(seg[b]) \in {"ALetter", "Numeric", "Ideographic"}
         \/ WB(seg[b]) = "ExtendNumLet" /\ b = Len(seg) /\ PrevBase(seg, b - 1) # 0

RECURSIVE SegmentFrom(_, _)
SegmentFrom(s, i) ==
  IF i > Len(s) THEN <<>>
  ELSE LET e   == SegmentEnd(s, i)
           seg == SubSeq(s, i, e)
       IN  <<[segment |-> seg, isWordLike |-> IsWordLike(seg)]>>
             \o SegmentFrom(s, e + 1)

\* wordSegmenter.segment(s)
Segment(s) == SegmentFrom(s, 1)

(***************************************************************************)
(* Char maps (Map<string, string>): the entries in insertion order         *)
(***************************************************************************)
Keys(entries) == [i \in 1..Len(entries) |-> entries[i][1]]

HasKey(entries, k) == \E i \in 1..Len(entries) : entries[i][1] = k

\* Map.prototype.get, for a key the map holds
MapGet(entries, k) ==
  entries[CHOOSE i \in 1..Len(entries) : entries[i][1] = k][2]

(***************************************************************************)
(* Regular expressions                                                     *)
(*  - the transliteration pattern: the alternatives of (?:k1|k2|...), or   *)
(*    SyntaxError when the source does not compile                         *)
(*  - a strip pattern: the set of code points its character class matches  *)
(*    and its global flag                                                  *)
(***************************************************************************)
NoRe == [kind |-> "none"]

SyntaxError == [kind |-> "SyntaxError"]

\* /[^\s\S]/gu
MatchNothingRe == [kind |-> "re", alts |-> <<>>]

RECURSIVE InsertByLength(_, _)
\* insertion that keeps the order Array.prototype.sort (stable) gives with
\* the comparator (a, b) => b.length - a.length
InsertByLength(k, sorted) ==
  IF sorted = <<>> THEN <<k>>
  ELSE IF Len(Head(sorted)) >= Len(k)
       THEN <<Head(sorted)>> \o InsertByLength(k, Tail(sorted))
       ELSE <<k>> \o sorted

RECURSIVE SortByLengthDesc(_)
SortByLengthDesc(ks) ==
  IF ks = <<>> THEN <<>>
  ELSE InsertByLength(Head(ks), SortByLengthDesc(Tail(ks)))

\* the keys go into the pattern source as they are: "(" opens a group that
\* nothing closes, "." is the any-character atom
IsValidSource(ks) ==
  \A i \in 1..Len(ks) : \A j \in 1..Len(ks[i]) : ks[i][j] # "("

\* new RegExp(`(?:${keys.sort(...).join("|")})`, "gu")
NewTransliterationRe(entries) ==
  LET sorted == SortByLengthDesc(Keys(entries))
  IN  IF IsValidSource(sorted)
      THEN [kind |-> "re", alts |-> sorted]
      ELSE SyntaxError

\* the alternative alt matches s at position i
AltMatchesAt(alt, s, i) ==
  /\ i + Len(alt) - 1 <= Len(s)
  /\ \A j \in 1..Len(alt) : alt[j] = "." \/ alt[j] = s[i + j - 1]

\* the length of the match of re at position i of s: the first alternative,
\* in pattern order, that matches there (0: no match)
MatchLenAt(re, s, i) ==
  LET hits == {a \in 1..Len(re.alts) : AltMatchesAt(re.alts[a], s, i)}
  IN  IF hits = {} THEN 0
      ELSE Len(re.alts[CHOOSE a \in hits : \A b \in hits : a <= b])

RECURSIVE ReplaceFrom(_, _, _, _)
ReplaceFrom(word, re, entries, i) ==
  IF i > Len(word) THEN <<>>
  ELSE LET n == MatchLenAt(re, word, i)
           m == SubSeq(word, i, i + n - 1)
       IN  IF n = 0
           THEN <<word[i]>> \o ReplaceFrom(word, re, entries, i + 1)
           ELSE (IF HasKey(entries, m) THEN MapGet(entries, m) ELSE m)
                  \o ReplaceFrom(word, re, entries, i + n)

\* convertWord(word, config)
convertWord(word, config) ==
  IF config.transliterate
  THEN ReplaceFrom(word, config.re, config.charMap, 1)
  ELSE word

StripClass(S) == [matches |-> S, global |-> TRUE]

\* /[^\p{L}\p{M}\p{N}\-\w]+/gu: the connector "_" is left in
NON_WORD_WordClass ==
  StripClass({c \in Chars :
                ~(IsL(c) \/ IsM(c) \/ IsN(c) \/ c = Hyphen \/ c = "_")})

\* /[^\p{L}\p{M}\p{N}\-]+/gu
NON_WORD ==
  StripClass({c \in Chars : ~(IsL(c) \/ IsM(c) \/ IsN(c) \/ c = Hyphen)})

\* /[^\p{L}\p{N}\-]+/gu
DIACRITICS == StripClass({c \in Chars : ~(IsL(c) \/ IsN(c) \/ c = Hyphen)})

\* /[^\w\-]/g: the connector "_" is left in
NON_ASCII_WordClass == StripClass({c \in Chars : ~IsAsciiWord(c) /\ c # "_"})

\* /[^0-9a-zA-Z\-]/g
NON_ASCII == StripClass({c \in Chars : ~IsAsciiWord(c)})

\* replaceAll(stripRe, "-"): a hyphen takes the place of each match
StripAllHyphen(s, stripRe) ==
  [i \in 1..Len(s) |-> IF s[i] \in stripRe.matches THEN Hyphen ELSE s[i]]

\* String.prototype.replaceAll(stripRe, "")
StripAll(s, stripRe) == SelectSeq(s, LAMBDA c : c \notin stripRe.matches)

RECURSIVE CollapseHyphens(_)
\* String.prototype.replaceAll(/-{2,}/g, "-")
CollapseHyphens(s) ==
  IF Len(s) < 2 THEN s
  ELSE IF s[1] = Hyphen /\ s[2] = Hyphen THEN CollapseHyphens(Tail(s))
  ELSE <<s[1]>> \o CollapseHyphens(Tail(s))

\* String.prototype.replaceAll(/^-|-$/g, "")
TrimHyphens(s) ==
  LET t == IF s # <<>> /\ Head(s) = Hyphen THEN Tail(s) ELSE s
  IN  IF t # <<>> /\ t[Len(t)] = Hyphen THEN SubSeq(t, 1, Len(t) - 1) ELSE t

(***************************************************************************)
(* slugify                                                                 *)
(***************************************************************************)
\* the char map instances a caller holds
MapIds == {"EMPTY", "XY", "LONG", "PAREN", "UPPER", "ICU", "DOT", "DASH",
           "SPAN"}

\* the value of an option that was not supplied
Absent == "absent"

\* getTransliterationRe(charMap): the pattern it returns (SyntaxError when
\* new RegExp throws) and the cache it leaves
getTransliterationRe(cache, id, entries) ==
  IF cache[id] # NoRe
  THEN [re |-> cache[id], cache |-> cache]
  ELSE IF Len(entries) = 0
  THEN [re |-> MatchNothingRe, cache |-> cache]
  ELSE LET re == NewTransliterationRe(entries)
       IN  IF re = SyntaxError
           THEN [re |-> SyntaxError, cache |-> cache]
           ELSE [re |-> re, cache |-> [cache EXCEPT ![id] = re]]

\* the tokens the segmentation loop pushes onto words
RECURSIVE Words(_)
Words(segs) ==
  IF segs = <<>> THEN <<>>
  ELSE LET s == Head(segs)
       IN  (IF s.isWordLike THEN <<s.segment>>
            ELSE IF Len(s.segment) > 0 THEN <<<<Hyphen>>>>
            ELSE <<>>) \o Words(Tail(segs))

\* the patterns a caller passes as options.strip: the exported ones,
\* /[^\s\S]/gu, /[ab]/g, /-/g and /[ab]/ (no global flag)
StripNames == {"NON_WORD", "DIACRITICS", "NON_ASCII", "NOTHING", "AB",
               "HYPHEN", "NOFLAG"}

StripPattern(name) ==
  CASE name = "NON_WORD"   -> NON_WORD
    [] name = "DIACRITICS" -> DIACRITICS
    [] name = "NON_ASCII"  -> NON_ASCII
    [] name = "NOTHING"    -> StripClass({})
    [] name = "AB"         -> StripClass({"a", "b"})
    [] name = "HYPHEN"     -> StripClass({Hyphen})
    [] name = "NOFLAG"     -> [matches |-> {"a", "b"}, global |-> FALSE]

\* new RegExp(options?.strip ?? NON_WORD): the mode is not looked at
StripReOneDefault(strip, transliterate) ==
  IF strip # Absent THEN StripPattern(strip) ELSE NON_WORD

\* new RegExp(options?.strip ?? (config.transliterate ? NON_ASCII : NON_WORD))
StripRe(strip, transliterate) ==
  IF strip # Absent THEN StripPattern(strip)
  ELSE IF transliterate THEN NON_ASCII ELSE NON_WORD

\* the tokens are concatenated in both modes
JoinSeparatorNone(config) == <<>>

\* config.transliterate ? "-" : ""
JoinSeparator(config) == IF config.transliterate THEN <<Hyphen>> ELSE <<>>

\* r || "-"
Fallback(r) == IF r = <<>> THEN <<Hyphen>> ELSE r

\* the prepared input is transliterated as one word before it is segmented
PipelineWholeInput(in, config, stripRe) ==
  LET words  == Words(Segment(convertWord(Prepare(in), config)))
      joined == JoinWith(words, JoinSeparator(config))
  IN  TrimHyphens(CollapseHyphens(NFC(StripAll(joined, stripRe))))

\* the chain of string operations of the return statement, before || "-"
Pipeline(in, config, stripRe) ==
  LET words     == Words(Segment(Prepare(in)))
      converted == [i \in 1..Len(words) |-> convertWord(words[i], config)]
      joined    == JoinWith(converted, JoinSeparator(config))
  IN  TrimHyphens(CollapseHyphens(NFC(StripAll(joined, stripRe))))

\* slugify from line 149 on, with the pattern getTransliterationRe gave
\* (SyntaxError: it threw): how the call ends and the string it returns
slugifyWithRe(in, opts, maps, re) ==
  LET transliterate == opts.charMap # Absent
      config == IF transliterate
                THEN [transliterate |-> TRUE, charMap |-> maps[opts.charMap],
                      re |-> re]
                ELSE [transliterate |-> FALSE]
      stripRe == StripRe(opts.strip, transliterate)
  IN  IF re = SyntaxError
      THEN [outcome |-> "threw", error |-> "SyntaxError", value |-> <<>>]
      ELSE IF ~stripRe.global
      THEN [outcome |-> "threw", error |-> "TypeError", value |-> <<>>]
      ELSE [outcome |-> "returned", error |-> "none",
            value |-> Fallback(Pipeline(in, config, stripRe))]

\* slugify(input, options): how the call ends, the string it returns and
\* the pattern cache it leaves
slugify(in, opts, maps, cache) ==
  LET got == IF opts.charMap # Absent
             THEN getTransliterationRe(cache, opts.charMap, maps[opts.charMap])
             ELSE [re |-> NoRe, cache |-> cache]
      r   == slugifyWithRe(in, opts, maps, got.re)
  IN  [outcome |-> r.outcome, error |-> r.error, value |-> r.value,
       cache |-> got.cache]

(***************************************************************************)
(* The table compiler (build.ts) and the table loader                      *)
(***************************************************************************)
\* Map.prototype.set: a key the map holds keeps its place
MapSet(entries, k, v) ==
  IF HasKey(entries, k)
  THEN [i \in 1..Len(entries) |->
          IF entries[i][1] = k THEN <<k, v>> ELSE entries[i]]
  ELSE Append(entries, <<k, v>>)

\* Map.prototype.delete
MapDelete(entries, k) == SelectSeq(entries, LAMBDA e : e[1] # k)

\* normalize(str): str.trim().normalize("NFD").toLowerCase()
normalize(str) == ToLowerCase(NFD(Trim(str)))

\* the code points in the order of the en-US collation (primary weights)
CollationOrder ==
  <<"_", Hyphen, ",", "!", "'", ".", "(", " ", "1", "a", "A", "b", "x",
    "X", "y", "sigma", "han">>

PrimaryWeight(c) ==
  CHOOSE i \in 1..Len(CollationOrder) :
    CollationOrder[i] = (IF c = "A" THEN "a" ELSE IF c = "X" THEN "x" ELSE c)

RECURSIVE LexCompare(_, _)
\* the order of two sequences of numbers: -1, 0 or 1
LexCompare(x, y) ==
  IF x = <<>> /\ y = <<>> THEN 0
  ELSE IF x = <<>> THEN -1
  ELSE IF y = <<>> THEN 1
  ELSE IF Head(x) < Head(y) THEN -1
  ELSE IF Head(x) > Head(y) THEN 1
  ELSE LexCompare(Tail(x), Tail(y))

\* the primary weights of a string: marks have none
PrimaryKey(str) ==
  LET d == SelectSeq(NFD(str), LAMBDA c : ~IsM(c))
  IN  [i \in 1..Len(d) |-> PrimaryWeight(d[i])]

\* the secondary weights: a mark weighs more than a base code point
SecondaryKey(str) ==
  LET d == NFD(str) IN [i \in 1..Len(d) |-> IF IsM(d[i]) THEN 2 ELSE 1]

\* the tertiary weights: an uppercase letter weighs more than a lowercase
TertiaryKey(str) ==
  LET d == NFD(str) IN [i \in 1..Len(d) |-> IF d[i] \in AsciiUpper THEN 2 ELSE 1]

\* sortAlphabetical(a, b): a.localeCompare(b, "en-US")
sortAlphabetical(a, b) ==
  LET p == LexCompare(PrimaryKey(a), PrimaryKey(b))
      q == LexCompare(SecondaryKey(a), SecondaryKey(b))
  IN  IF p # 0 THEN p
      ELSE IF q # 0 THEN q
      ELSE LexCompare(TertiaryKey(a), TertiaryKey(b))

RECURSIVE InsertSorted(_, _)
\* x goes after every element that does not sort after it (a stable
\* sort); the elements are tuples compared on their first component
InsertSorted(x, sorted) ==
  IF sorted = <<>> THEN <<x>>
  ELSE IF sortAlphabetical(Head(sorted)[1], x[1]) <= 0
       THEN <<Head(sorted)>> \o InsertSorted(x, Tail(sorted))
       ELSE <<x>> \o sorted

RECURSIVE SortEntries(_)
\* Array.prototype.sort(([a], [b]) => sortAlphabetical(a, b))
SortEntries(xs) ==
  IF xs = <<>> THEN <<>>
  ELSE InsertSorted(xs[Len(xs)], SortEntries(SubSeq(xs, 1, Len(xs) - 1)))

\* Array.prototype.sort(sortAlphabetical) of an array of strings
SortStrings(xs) ==
  LET sorted == SortEntries([i \in 1..Len(xs) |-> <<xs[i]>>])
  IN  [i \in 1..Len(sorted) |-> sorted[i][1]]

RECURSIVE Dedupe(_)
\* [...new Set(xs)]: the first occurrence of each element stays
Dedupe(xs) ==
  IF xs = <<>> THEN <<>>
  ELSE LET init == Dedupe(SubSeq(xs, 1, Len(xs) - 1))
           x    == xs[Len(xs)]
       IN  IF \E i \in 1..Len(init) : init[i] = x THEN init
           ELSE Append(init, x)

RECURSIVE SplitFrom(_, _, _)
SplitFrom(str, i, cur) ==
  IF i > Len(str) THEN <<cur>>
  ELSE IF str[i] = "," THEN <<cur>> \o SplitFrom(str, i + 1, <<>>)
  ELSE SplitFrom(str, i + 1, Append(cur, str[i]))

\* String.prototype.split(",")
Split(str) == SplitFrom(str, 1, <<>>)

RECURSIVE InsertLhsNoChain(_, _, _)
\* only map.set(lhs, rhs): a target that is a key of the map is not followed
InsertLhsNoChain(entries, lhss, _rhs) ==
  IF lhss = <<>> THEN entries
  ELSE LET lhs == normalize(Head(lhss))
           rhs == normalize(_rhs)
       IN  IF lhs = <<>> THEN InsertLhsNoChain(entries, Tail(lhss), _rhs)
           ELSE InsertLhsNoChain(MapSet(entries, lhs, rhs), Tail(lhss), _rhs)

RECURSIVE InsertLhs(_, _, _)
\* the body of the loop over the left-hand sides of one rule line:
\* map.set(lhs, rhs), and when rhs is a key of the map, map.set(lhs,
\* map.get(rhs))
InsertLhs(entries, lhss, _rhs) ==
  IF lhss = <<>> THEN entries
  ELSE LET lhs == normalize(Head(lhss))
           rhs == normalize(_rhs)
           set == MapSet(entries, lhs, rhs)
       IN  IF lhs = <<>> THEN InsertLhs(entries, Tail(lhss), _rhs)
           ELSE InsertLhs(
                  IF HasKey(set, rhs) THEN MapSet(set, lhs, MapGet(set, rhs))
                  ELSE set,
                  Tail(lhss), _rhs)

\* NON_ASCII_ALPHANUM.test(str): /[^a-zA-Z0-9\-']/
NON_ASCII_ALPHANUM(str) ==
  \E i \in 1..Len(str) : ~(IsAsciiWord(str[i]) \/ str[i] = "'")

\* /[$()\[\]\-\+\*\?\{\}]/.test(k): the comma is not looked for
HasRuleSyntaxNoComma(k) == \E i \in 1..Len(k) : k[i] \in {"(", Hyphen}

\* /[$()\[\]\-\+\*\?\{\},]/.test(k)
HasRuleSyntax(k) == \E i \in 1..Len(k) : k[i] \in {"(", Hyphen, ","}

\* v is taken as it is
vNormalizedNone(v) == v

\* v.normalize("NFKD").replaceAll(/[^\p{L}\p{N}]/gu, "")
vNormalized(v) == SelectSeq(NFD(v), LAMBDA c : IsL(c) \/ IsN(c))

\* the entry k -> v stays in the map after the filter loop
KeepsEntry(k, v) ==
  /\ NON_ASCII_ALPHANUM(k) \/ NON_ASCII_ALPHANUM(v)
  /\ k # <<>> /\ ~HasRuleSyntax(k)
  /\ vNormalized(v) # <<>>
  /\ ~NON_ASCII_ALPHANUM(vNormalized(v))

RECURSIVE FilterEntries(_)
\* the filter loop: an entry is deleted or its target is set to vNormalized
FilterEntries(entries) ==
  IF entries = <<>> THEN <<>>
  ELSE LET k == Head(entries)[1]
           v == Head(entries)[2]
       IN  (IF KeepsEntry(k, v) THEN <<<<k, vNormalized(v)>>>> ELSE <<>>)
             \o FilterEntries(Tail(entries))

RECURSIVE GroupByTarget(_)
\* _out: for each target, in the order the targets first occur, the keys
\* that map to it ( _out[v] ??= []; _out[v].push(k) )
GroupByTarget(entries) ==
  IF entries = <<>> THEN <<>>
  ELSE LET init == GroupByTarget(SubSeq(entries, 1, Len(entries) - 1))
           k    == entries[Len(entries)][1]
           v    == entries[Len(entries)][2]
       IN  IF \E i \in 1..Len(init) : init[i][1] = v
           THEN [i \in 1..Len(init) |->
                   IF init[i][1] = v THEN <<v, Append(init[i][2], k)>>
                   ELSE init[i]]
           ELSE Append(init, <<v, <<k>>>>)

\* out: the groups sorted by target, each with its keys sorted, without
\* duplicates and joined with ","
SerializeTable(entries) ==
  LET sorted == SortEntries(GroupByTarget(entries))
  IN  [i \in 1..Len(sorted) |->
         <<sorted[i][1],
           JoinWith(Dedupe(SortStrings(sorted[i][2])), <<",">>)>>]

RECURSIVE SetAll(_, _, _)
SetAll(entries, ys, x) ==
  IF ys = <<>> THEN entries
  ELSE SetAll(MapSet(entries, Head(ys), x), Tail(ys), x)

RECURSIVE LoadTable(_)
\* the loader: charMap.set(y, x[0]) for each y of x[1].split(",")
LoadTable(table) ==
  IF table = <<>> THEN <<>>
  ELSE SetAll(LoadTable(SubSeq(table, 1, Len(table) - 1)),
              Split(table[Len(table)][2]), table[Len(table)][1])

(***************************************************************************)
(* State                                                                   *)
(***************************************************************************)
VARIABLES
  \* the arguments of the slugify call
  input, options,
  \* the entries of every char map instance
  charMaps,
  \* transliterationReCache: the pattern stored for each char map instance
  transliterationReCache,
  \* how the last call ended ("pending": not called yet), what it returned,
  \* and the number of calls made
  outcome, result, calls,
  \* the entries the char map of the last call held when the call was made
  argMap,
  \* the table compiler: the stage it is at, the rule lines not yet
  \* inserted, and its map
  stage, lines, map,
  \* the table the compiler writes (map.json), the char map the loader
  \* builds from it, and the table derived again from that char map
  out, charMap, rederived,
  \* the run of the table compiler from its start: the value of ICU_DIR,
  \* the entries of the directory, the files the bucket loop has not read
  \* yet, and the file whose lines are being inserted
  icuDir, dirEntries, queue, current,
  \* callers inside slugify at the same time, all with the char map
  \* options.charMap: where each caller is, the input it passed, the
  \* pattern it holds in re, and how its call ended
  pc, inputs, callerRe, results

slugVars == <<input, options, charMaps, transliterationReCache, outcome,
              result, calls, argMap>>

corpusVars == <<icuDir, dirEntries, queue, current>>

tableVars == <<stage, lines, map, out, charMap, rederived, corpusVars>>

concVars == <<pc, inputs, callerRe, results>>

vars == <<slugVars, tableVars, concVars>>

\* the code points callers put into inputs
InputChars == {"a", "b", "A", "1", Hyphen, " ", "!", "'", "_", "acute",
               "aacute", "sigma", "han"}

\* the code points that never belong to a word-like segment
SeparatorChars == {" ", "!", Hyphen}

\* two words with a run of separators between them
Phrases ==
  {<<w1>> \o sep \o <<w2>> :
     w1 \in {"a", "1", "sigma"}, w2 \in {"b", "A", "han"},
     sep \in SeqsUpTo(SeparatorChars, MaxRun) \ {<<>>}}

\* a number written with a grouping comma, as "33,000"
GroupedNumbers == {<<"1", ",", "1">>}

Inputs == SeqsUpTo(InputChars, MaxLen) \cup Phrases \cup GroupedNumbers

\* the code points of the inputs of the calls that pass a char map: the
\* letters its keys are made of, the letters that decompose to them, and
\* separators
MapInputChars == {"a", "b", "A", Hyphen, " ", "aacute", "sigma", "han"}

MapInputs == SeqsUpTo(MapInputChars, MaxLen) \cup Phrases

InputsFor(opts) == IF opts.charMap = Absent THEN Inputs ELSE MapInputs

Str(c) == <<c>>

\* the entries of the char map instances
InitialCharMaps ==
  [id \in MapIds |->
     CASE id = "EMPTY" -> <<>>
       [] id = "XY"    -> <<<<Str("a"), Str("x")>>, <<Str("b"), Str("y")>>>>
       [] id = "LONG"  -> <<<<Str("a"), Str("x")>>, <<<<"a", "b">>, Str("y")>>>>
       [] id = "PAREN" -> <<<<Str("("), Str("x")>>>>
       [] id = "UPPER" -> <<<<Str("a"), Str("X")>>>>
       [] id = "ICU"   -> <<<<Str("sigma"), Str("b")>>, <<Str("han"), Str("a")>>>>
       [] id = "DOT"   -> <<<<Str("a"), Str("x")>>, <<<<"a", ".">>, Str("y")>>>>
       [] id = "DASH"  -> <<<<Str(Hyphen), Str("x")>>>>
       [] id = "SPAN"  -> <<<<<<"a", "han">>, Str("y")>>, <<Str("b"), Str("x")>>>>]

\* slugify(input): no options
DefaultOptions == [charMap |-> Absent, strip |-> Absent]

\* the options callers pass
Options ==
  {[charMap |-> Absent, strip |-> s] : s \in StripNames \cup {Absent}}
    \cup {[charMap |-> m, strip |-> Absent] : m \in MapIds}
    \cup {[charMap |-> "EMPTY", strip |-> "NOTHING"],
          [charMap |-> "EMPTY", strip |-> "HYPHEN"]}

\* no directory is being compiled
CorpusIdle ==
  /\ icuDir = "set"
  /\ dirEntries = <<>>
  /\ queue = <<>>
  /\ current = "none"

\* the table compiler has not been run
TableIdle ==
  /\ CorpusIdle
  /\ stage = "idle"
  /\ lines = <<>>
  /\ map = <<>>
  /\ out = <<>>
  /\ charMap = <<>>
  /\ rederived = <<>>

\* the callers that may be inside slugify at the same time
MaxCallers == 2

Callers == 1..MaxCallers

\* how a call of slugify that has not ended is recorded
NoResult == [outcome |-> "pending", error |-> "none", value |-> <<>>]

\* no caller is inside slugify
ConcIdle ==
  /\ pc = [p \in Callers |-> "idle"]
  /\ inputs = [p \in Callers |-> <<>>]
  /\ callerRe = [p \in Callers |-> NoRe]
  /\ results = [p \in Callers |-> NoResult]

Init ==
  /\ options \in Options
  /\ input \in InputsFor(options)
  /\ charMaps = InitialCharMaps
  /\ transliterationReCache = [id \in MapIds |-> NoRe]
  /\ outcome = "pending"
  /\ result = <<>>
  /\ calls = 0
  /\ argMap = <<>>
  /\ TableIdle
  /\ ConcIdle

\* options.charMap as the call finds it: the entries the instance holds
ArgMap(opts, maps) ==
  IF opts.charMap = Absent THEN <<>> ELSE maps[opts.charMap]

\* the effect of the call slugify(in, options)
Call(in) ==
  LET r == slugify(in, options, charMaps, transliterationReCache)
  IN  /\ input' = in
      /\ outcome' = r.outcome
      /\ result' = r.value
      /\ transliterationReCache' = r.cache
      /\ calls' = calls + 1
      /\ argMap' = ArgMap(options, charMaps)
      /\ UNCHANGED <<options, charMaps, tableVars, concVars>>

\* slugify(input, options)
Slugify ==
  /\ calls = 0
  /\ Call(input)

\* slugify(slugify(input, options), options)
SlugifyAgain ==
  /\ calls = 1
  /\ outcome = "returned"
  /\ Call(result)

Next == Slugify \/ SlugifyAgain

Spec == Init /\ [][Next]_vars

(***************************************************************************)
(* The compiler run, the load of its table and the table derived again     *)
(***************************************************************************)
\* the strings the rule files hold on the left and on the right of a rule
RuleLhs == {<<"sigma">>, <<"han">>, <<"A">>, <<"sigma", ",">>,
            <<"b", "acute">>, <<" ">>}

RuleRhs == {<<"a">>, <<"b">>, <<"sigma">>, <<"a", "acute">>, <<"!">>, <<"1">>,
            <<"a", "'">>}

\* the lines the rule parser yields: one left-hand side, or the array a
\* bracket expression expands to
RuleLines ==
  {[lhs |-> <<l>>, rhs |-> r] : l \in RuleLhs, r \in RuleRhs}
    \cup {[lhs |-> <<<<"sigma">>, <<"han">>>>, rhs |-> <<"a">>]}

\* no slugify call is made
SlugIdle ==
  /\ input = <<>>
  /\ options = DefaultOptions
  /\ charMaps = InitialCharMaps
  /\ transliterationReCache = [id \in MapIds |-> NoRe]
  /\ outcome = "pending"
  /\ result = <<>>
  /\ calls = 0
  /\ argMap = <<>>

TableInit ==
  /\ SlugIdle
  /\ ConcIdle
  /\ CorpusIdle
  /\ stage = "insert"
  /\ lines \in SeqsUpTo(RuleLines, MaxLines)
  /\ map = <<>>
  /\ out = <<>>
  /\ charMap = <<>>
  /\ rederived = <<>>

\* one pass of the loop over result.lines
InsertLine ==
  /\ stage = "insert"
  /\ lines # <<>>
  /\ map' = InsertLhs(map, Head(lines).lhs, Head(lines).rhs)
  /\ lines' = Tail(lines)
  /\ UNCHANGED <<stage, out, charMap, rederived, slugVars,
                 corpusVars, concVars>>

\* the filter loop over map.entries()
FilterMap ==
  /\ stage = "insert"
  /\ lines = <<>>
  /\ queue = <<>>
  /\ map' = FilterEntries(map)
  /\ stage' = "filter"
  /\ UNCHANGED <<lines, out, charMap, rederived, slugVars,
                 corpusVars, concVars>>

\* the inversion into out and Deno.writeTextFile(map.json)
WriteTable ==
  /\ stage = "filter"
  /\ out' = SerializeTable(map)
  /\ stage' = "written"
  /\ UNCHANGED <<lines, map, charMap, rederived, slugVars,
                 corpusVars, concVars>>

\* the loader: the import of map.json and the loop that fills charMap
LoadCharMap ==
  /\ stage = "written"
  /\ charMap' = LoadTable(out)
  /\ stage' = "loaded"
  /\ UNCHANGED <<lines, map, out, rederived, slugVars,
                 corpusVars, concVars>>

\* the compiler's inversion, applied to the loaded char map
Rederive ==
  /\ stage = "loaded"
  /\ rederived' = SerializeTable(charMap)
  /\ stage' = "rederived"
  /\ UNCHANGED <<lines, map, out, charMap, slugVars,
                 corpusVars, concVars>>

TableNext ==
  InsertLine \/ FilterMap \/ WriteTable \/ LoadCharMap \/ Rederive

TableSpec == TableInit /\ [][TableNext]_vars

(***************************************************************************)
(* Properties of slugify                                                   *)
(***************************************************************************)
\* the last call returned a string
Returned == calls >= 1 /\ outcome = "returned"

\* the strip pattern of the last call
ActiveStrip == StripRe(options.strip, options.charMap # Absent)

\* the entries of the char map of the last call
ActiveEntries ==
  IF options.charMap = Absent THEN <<>> ELSE charMaps[options.charMap]

\* a-z, 0-9 and "-"
SlugChars == AsciiLower \cup AsciiDigit \cup {Hyphen}

OnlySlugChars(s) == \A i \in 1..Len(s) : s[i] \in SlugChars

\* C1: slugify is total: under any supplied charMap and strip option a
\* call returns a string and never raises an error.
C1_Total == calls >= 1 => outcome = "returned"

NonAsciiStripped ==
  \/ options.strip = "NON_ASCII"
  \/ options.strip = Absent /\ options.charMap # Absent

\* every target of the char map in use is made of a-z, 0-9 and "-"
TargetsAreSlugs ==
  \A i \in 1..Len(ActiveEntries) : OnlySlugChars(ActiveEntries[i][2])

C3_Idempotent ==
  (calls = 2 /\ outcome = "returned" /\ options = DefaultOptions)
    => result = input

\* nothing of the input can survive the pipeline: every code point is a
\* separator or is matched by the strip pattern, and none is rewritten by
\* the char map
NothingSurvives ==
  LET p == Prepare(input)
  IN  \A i \in 1..Len(p) :
        /\ p[i] \in SeparatorChars \/ p[i] \in ActiveStrip.matches
        /\ \A k \in 1..Len(ActiveEntries) :
             \A j \in 1..Len(ActiveEntries[k][1]) :
               ActiveEntries[k][1][j] # p[i]

\* C4: the result is never the empty string; when nothing survives the
\* pipeline (empty input, only separators, only stripped code points) the
\* result is exactly "-".
C4_NeverEmpty ==
  Returned =>
    /\ result # <<>>
    /\ input = <<>> => result = <<Hyphen>>
    /\ NothingSurvives => result = <<Hyphen>>

NoDoubleHyphen(r) ==
  \A i \in 1..(Len(r) - 1) : ~(r[i] = Hyphen /\ r[i + 1] = Hyphen)

NoEdgeHyphen(r) ==
  r = <<Hyphen>> \/ (r # <<>> /\ r[1] # Hyphen /\ r[Len(r)] # Hyphen)

\* a non-empty string of letters and digits
IsPlainWord(w) == w # <<>> /\ \A i \in 1..Len(w) : IsL(w[i]) \/ IsN(w[i])

IsSeparatorRun(r) ==
  r # <<>> /\ \A i \in 1..Len(r) : r[i] \in SeparatorChars

\* what a call with the options of the last call returns for w
SlugOf(w) == slugify(w, options, charMaps, transliterationReCache).value

\* the input is w1 sep w2, two plain words that survive on their own with
\* a run of at least n separators between them, and the result is the two
\* slugs with one hyphen between them
SplitsAt(i, j, n) ==
  LET w1  == SubSeq(input, 1, i)
      sep == SubSeq(input, i + 1, j - 1)
      w2  == SubSeq(input, j, Len(input))
  IN  /\ IsPlainWord(w1) /\ IsPlainWord(w2) /\ IsSeparatorRun(sep)
      /\ Len(sep) >= n
      /\ SlugOf(w1) # <<Hyphen>> /\ SlugOf(w2) # <<Hyphen>>

OneHyphenAt(i, j) ==
  result = SlugOf(SubSeq(input, 1, i)) \o <<Hyphen>>
             \o SlugOf(SubSeq(input, j, Len(input)))

\* any run of separators between two surviving words yields one hyphen
SeparatorRule ==
  \A i \in 1..Len(input) : \A j \in (i + 2)..Len(input) :
    SplitsAt(i, j, 1) => OneHyphenAt(i, j)

\* C5: for any strip pattern the result has no two consecutive
\* hyphens, neither starts nor ends with a hyphen unless it is "-", and a
\* run of separators between two surviving words yields exactly one hyphen.
C5_Original ==
  Returned =>
    NoDoubleHyphen(result) /\ NoEdgeHyphen(result) /\ SeparatorRule

\* the pattern the last call transliterated with
ActiveRe ==
  IF Len(ActiveEntries) = 0 THEN MatchNothingRe
  ELSE transliterationReCache[options.charMap]

\* the key k stands at position i of w
KeyAt(k, w, i) ==
  i + Len(k) - 1 <= Len(w) /\ SubSeq(w, i, i + Len(k) - 1) = k

RECURSIVE LongestMatchFrom(_, _, _)
\* left to right, the longest key that stands at the position is replaced
\* by its target; a code point where no key stands is kept
LongestMatchFrom(w, entries, i) ==
  IF i > Len(w) THEN <<>>
  ELSE LET hits == {e \in 1..Len(entries) : KeyAt(entries[e][1], w, i)}
       IN  IF hits = {}
           THEN <<w[i]>> \o LongestMatchFrom(w, entries, i + 1)
           ELSE LET best == CHOOSE e \in hits : \A f \in hits :
                              Len(entries[e][1]) >= Len(entries[f][1])
                IN  entries[best][2]
                      \o LongestMatchFrom(w, entries, i + Len(entries[best][1]))

\* the segments of the input of the last call
InputSegments == Segment(Prepare(input))

\* C6: transliteration is longest-match-first, left to right and
\* non-overlapping: at each position of a word-like token the longest key
\* that matches there is the one substituted, and code points matched by no
\* key are left untouched.
C6_LongestMatch ==
  (Returned /\ options.charMap # Absent) =>
    \A i \in 1..Len(InputSegments) :
      InputSegments[i].isWordLike =>
        convertWord(InputSegments[i].segment,
                    [transliterate |-> TRUE, charMap |-> ActiveEntries,
                     re |-> ActiveRe])
          = LongestMatchFrom(InputSegments[i].segment, ActiveEntries, 1)

\* the strip pattern the options select
ExpectedStrip ==
  IF options.strip # Absent THEN StripPattern(options.strip)
  ELSE IF options.charMap # Absent THEN NON_ASCII
  ELSE NON_WORD

\* the prepared input is one word of letters, digits and marks that holds
\* no ideograph and no code point of a key of the char map
IsSingleWord(p) ==
  /\ p # <<>>
  /\ IsL(p[1]) \/ IsN(p[1])
  /\ \A i \in 1..Len(p) :
       /\ IsL(p[i]) \/ IsN(p[i]) \/ IsM(p[i])
       /\ p[i] \notin Ideographs
       /\ \A k \in 1..Len(ActiveEntries) :
            \A j \in 1..Len(ActiveEntries[k][1]) :
              ActiveEntries[k][1][j] # p[i]

Kept(p) == SelectSeq(p, LAMBDA c : c \notin ExpectedStrip.matches)

\* C7: transliteration mode is on exactly when options.charMap is supplied
\* (an empty map counts); without options.strip the strip pattern is
\* NON_ASCII in transliteration mode and NON_WORD otherwise; a supplied
\* options.strip overrides the default.  With an empty char map a letter
\* with a diacritic keeps its base letter and text with no ASCII letter
\* comes out as "-".
C7_ModeAndStrip ==
  Returned =>
    \* nothing the selected pattern matches is left in the result
    /\ \/ result = <<Hyphen>>
       \/ \A i \in 1..Len(result) : result[i] \notin ExpectedStrip.matches
    \* a single word loses exactly what the selected pattern matches
    /\ IsSingleWord(Prepare(input)) =>
         result = Fallback(NFC(Kept(Prepare(input))))
    \* a supplied map transliterates, an absent one does not
    /\ (options.charMap = "XY" /\ input = <<"a">>) => result = <<"x">>
    /\ (options.charMap = Absent /\ input = <<"a">>
          /\ "a" \notin ExpectedStrip.matches) => result = <<"a">>
    /\ options.charMap = Absent =>
         transliterationReCache = [id \in MapIds |-> NoRe]
    \* an empty map turns transliteration mode on
    /\ (options = [charMap |-> "EMPTY", strip |-> "NOTHING"]
          /\ input = <<"han", "han">>) => result = <<"han", Hyphen, "han">>
    /\ (options = [charMap |-> "EMPTY", strip |-> Absent]
          /\ input = <<"aacute", " ", "b">>) => result = <<"a", Hyphen, "b">>
    /\ (options = [charMap |-> "EMPTY", strip |-> Absent]
          /\ \A i \in 1..Len(input) : input[i] \in {"sigma", "han", "acute"})
         => result = <<Hyphen>>

\* with an empty char map and no strip option, "á b" came out as "a-b"
C7_Witness ==
  /\ Returned
  /\ options = [charMap |-> "EMPTY", strip |-> Absent]
  /\ input = <<"aacute", " ", "b">>
  /\ result = <<"a", Hyphen, "b">>

\* the input of the last call is made of two or more word-like tokens with
\* no separator between them, and each survives on its own
AdjacentWords ==
  LET segs == InputSegments
  IN  /\ Len(segs) >= 2
      /\ \A i \in 1..Len(segs) : segs[i].isWordLike
      /\ \A i \in 1..Len(segs) : SlugOf(segs[i].segment) # <<Hyphen>>

TokenSlugs ==
  LET segs == InputSegments
  IN  [i \in 1..Len(segs) |-> SlugOf(segs[i].segment)]

AsciiChars ==
  AsciiLower \cup AsciiUpper \cup AsciiDigit
    \cup {Hyphen, " ", "!", "'", "_", ",", "(", "."}

\* C9: with default options the result contains no ASCII character other
\* than a-z, 0-9 and "-".
C9_DefaultAscii ==
  (Returned /\ options = DefaultOptions) =>
    \A i \in 1..Len(result) : result[i] \in AsciiChars => result[i] \in SlugChars

\* with default options an input with an uppercase letter and with
\* punctuation inside a word came out as a slug
C9_Witness ==
  /\ Returned /\ calls = 1
  /\ options = DefaultOptions
  /\ \E i \in 1..Len(input) : input[i] = "A"
  /\ \E i \in 1..Len(input) : input[i] \in {"'", "_"}
  /\ result # <<Hyphen>>

(***************************************************************************)
(* Properties of the compiled table                                        *)
(***************************************************************************)
\* C10: expanding a table the compiler produced with the loader and
\* deriving the table again from the resulting char map (group the keys by
\* target, dedupe, sort the members, sort the targets) reproduces the table.
C10_RoundTrip == stage = "rederived" => rederived = out

\* a table with two targets, one of them with two keys, went through the
\* round trip
C10_Witness ==
  /\ stage = "rederived"
  /\ Len(out) >= 2
  /\ \E i \in 1..Len(out) : Len(Split(out[i][2])) >= 2
  /\ rederived = out

(***************************************************************************)
(* A sequence of slugify calls that share the pattern cache                *)
(***************************************************************************)
\* the number of calls of one sequence
MaxCalls == 3

\* transliterationReCache = new WeakMap()
EmptyCache == [id \in MapIds |-> NoRe]

\* the inputs and the options of the calls of a sequence
CacheInputs ==
  {<<>>, <<"a">>, <<"a", "b">>, <<"b", "a">>, <<"aacute">>, <<"han">>,
   <<"a", "han">>, <<"a", Hyphen, "b">>}

CacheOptions ==
  {DefaultOptions} \cup {[charMap |-> m, strip |-> Absent] : m \in MapIds}

\* the module is loaded and slugify has not been called
CacheInit ==
  /\ input = <<>>
  /\ options = DefaultOptions
  /\ charMaps = InitialCharMaps
  /\ transliterationReCache = EmptyCache
  /\ outcome = "pending"
  /\ result = <<>>
  /\ calls = 0
  /\ argMap = <<>>
  /\ TableIdle
  /\ ConcIdle

\* slugify(in, opts), for any input and options, after the earlier calls
SlugifyWith ==
  /\ calls < MaxCalls
  /\ \E in \in CacheInputs, opts \in CacheOptions :
       LET r == slugify(in, opts, charMaps, transliterationReCache)
       IN  /\ input' = in
           /\ options' = opts
           /\ outcome' = r.outcome
           /\ result' = r.value
           /\ transliterationReCache' = r.cache
           /\ calls' = calls + 1
           /\ argMap' = ArgMap(opts, charMaps)
           /\ UNCHANGED <<charMaps, tableVars, concVars>>

\* the char map instance a caller changes between calls, and the entry it
\* adds
MutableIds == {"XY"}

AddedKey == <<"han">>

AddedValue == <<"a">>

\* charMap.set(key, value) by the owner of the instance, between two calls
SetKey ==
  /\ \E id \in MutableIds :
       /\ ~HasKey(charMaps[id], AddedKey)
       /\ charMaps' = [charMaps EXCEPT
                         ![id] = MapSet(@, AddedKey, AddedValue)]
  /\ UNCHANGED <<input, options, transliterationReCache, outcome, result,
                 calls, argMap, tableVars, concVars>>

\* charMap.delete(key) by the owner of the instance, between two calls
DeleteKey ==
  /\ \E id \in MutableIds :
       \E i \in 1..Len(charMaps[id]) :
         charMaps' = [charMaps EXCEPT
                        ![id] = MapDelete(@, charMaps[id][i][1])]
  /\ UNCHANGED <<input, options, transliterationReCache, outcome, result,
                 calls, argMap, tableVars, concVars>>

CacheNext == SlugifyWith \/ SetKey \/ DeleteKey

CacheSpec == CacheInit /\ [][CacheNext]_vars

\* the char map instances as the last call found them
MapsAtCall ==
  IF options.charMap = Absent THEN charMaps
  ELSE [charMaps EXCEPT ![options.charMap] = argMap]

\* the last call, made with a cache that holds nothing
FromScratch == slugify(input, options, MapsAtCall, EmptyCache)

\* the last call ended as a call that builds its pattern from scratch
SameAsFromScratch ==
  calls >= 1 => /\ outcome = FromScratch.outcome
                /\ result = FromScratch.value

\* the pattern of the char map instance the last call used is stored
StoredAfterUse ==
  (outcome = "returned" /\ options.charMap # Absent) =>
    transliterationReCache[options.charMap] # NoRe

\* C11: the pattern of a char map instance is built at the first call that
\* uses the instance and stored under the instance, and for any sequence
\* of calls each call returns what a call that builds its pattern from
\* scratch returns.
C11_Original ==
  /\ SameAsFromScratch
  /\ StoredAfterUse

\* the pattern the last call used: the stored one, or the one it made
PatternUsed ==
  getTransliterationRe(transliterationReCache, options.charMap, argMap).re

\* the pattern of the keys the instance held when the last call was made
PatternOfKeys ==
  IF Len(argMap) = 0 THEN MatchNothingRe ELSE NewTransliterationRe(argMap)

\* C23: after any sequence of calls interleaved with additions and
\* removals of keys on a char map instance, every call transliterates
\* with exactly the keys the instance holds at the time of the call: the
\* pattern it uses is the one of those keys, never one built from an
\* earlier key set, and it returns what those keys give.
C23_LiveKeys ==
  (calls >= 1 /\ options.charMap # Absent) =>
    /\ PatternUsed = PatternOfKeys
    /\ result = FromScratch.value

(***************************************************************************)
(* Callers inside slugify at the same time with one char map instance:     *)
(* the steps of getTransliterationRe of one caller interleave with the     *)
(* steps of the others                                                     *)
(***************************************************************************)
\* the inputs the callers pass
ConcInputs == {<<"a">>, <<"b">>, <<"a", "b">>, <<"aacute">>}

\* transliterationReCache.set(charMap, re) stores nothing
CacheSetNothing(cache, id, re) == cache

\* transliterationReCache.set(charMap, re)
CacheSet(cache, id, re) == [cache EXCEPT ![id] = re]

\* the module is loaded; every caller is about to call slugify with the
\* same char map instance, which no call has used
ConcInit ==
  /\ input = <<>>
  /\ options \in {[charMap |-> m, strip |-> Absent] : m \in MapIds}
  /\ charMaps = InitialCharMaps
  /\ transliterationReCache = EmptyCache
  /\ outcome = "pending"
  /\ result = <<>>
  /\ calls = 0
  /\ argMap = <<>>
  /\ TableIdle
  /\ pc = [p \in Callers |-> "idle"]
  /\ inputs \in [Callers -> ConcInputs]
  /\ callerRe = [p \in Callers |-> NoRe]
  /\ results = [p \in Callers |-> NoResult]

\* caller p enters slugify and getTransliterationRe
Enter(p) ==
  /\ pc[p] = "idle"
  /\ pc' = [pc EXCEPT ![p] = "lookup"]
  /\ UNCHANGED <<slugVars, tableVars, inputs, callerRe, results>>

\* if (transliterationReCache.has(charMap)) return ...get(charMap)
Lookup(p) ==
  /\ pc[p] = "lookup"
  /\ IF transliterationReCache[options.charMap] # NoRe
     THEN /\ callerRe' = [callerRe EXCEPT
                            ![p] = transliterationReCache[options.charMap]]
          /\ pc' = [pc EXCEPT ![p] = "return"]
     ELSE /\ pc' = [pc EXCEPT ![p] = "build"]
          /\ UNCHANGED callerRe
  /\ UNCHANGED <<slugVars, tableVars, inputs, results>>

\* if (!charMap.size) return /[^\s\S]/gu;  const re = new RegExp(...)
Build(p) ==
  /\ pc[p] = "build"
  /\ LET entries == charMaps[options.charMap]
     IN  IF Len(entries) = 0
         THEN /\ callerRe' = [callerRe EXCEPT ![p] = MatchNothingRe]
              /\ pc' = [pc EXCEPT ![p] = "return"]
         ELSE /\ callerRe' = [callerRe EXCEPT
                                ![p] = NewTransliterationRe(entries)]
              /\ pc' = [pc EXCEPT
                          ![p] = IF NewTransliterationRe(entries) = SyntaxError
                                 THEN "return" ELSE "insert"]
  /\ UNCHANGED <<slugVars, tableVars, inputs, results>>

\* transliterationReCache.set(charMap, re); return re
Insert(p) ==
  /\ pc[p] = "insert"
  /\ transliterationReCache' =
       CacheSet(transliterationReCache, options.charMap, callerRe[p])
  /\ pc' = [pc EXCEPT ![p] = "return"]
  /\ UNCHANGED <<input, options, charMaps, outcome, result, calls,
                 argMap, tableVars, inputs, callerRe, results>>

\* the rest of slugify, with the pattern the caller holds
Return(p) ==
  /\ pc[p] = "return"
  /\ results' = [results EXCEPT
                   ![p] = slugifyWithRe(inputs[p], options, charMaps,
                                        callerRe[p])]
  /\ pc' = [pc EXCEPT ![p] = "done"]
  /\ UNCHANGED <<slugVars, tableVars, inputs, callerRe>>

ConcNext ==
  \E p \in Callers :
    Enter(p) \/ Lookup(p) \/ Build(p) \/ Insert(p) \/ Return(p)

ConcSpec == ConcInit /\ [][ConcNext]_vars

\* the call of caller p, made alone with an empty cache
Alone(p) == slugify(inputs[p], options, charMaps, EmptyCache)

\* C12: when several callers are inside slugify at the same time with the
\* same char map instance that no call has used, then under every
\* interleaving of their lookup, build and insert steps the cache holds
\* nothing or the freshly built pattern for the instance, it holds what a
\* caller running alone leaves once all callers are done, and every caller
\* ends as it would when running alone.
C12_ConcurrentFirstUse ==
  /\ transliterationReCache[options.charMap]
       \in {NoRe, NewTransliterationRe(charMaps[options.charMap])}
  /\ \A id \in MapIds \ {options.charMap} : transliterationReCache[id] = NoRe
  /\ \A p \in Callers :
       pc[p] = "done" =>
         /\ results[p].outcome = Alone(p).outcome
         /\ results[p].value = Alone(p).value
  /\ (\A p \in Callers : pc[p] = "done") =>
       \A p \in Callers : transliterationReCache = Alone(p).cache

\* one caller is done with a pattern it built and stored while another,
\* which found the cache empty and built its own, is about to store it
C12_Witness ==
  /\ pc[1] = "done"
  /\ pc[2] = "insert"
  /\ options.charMap = "LONG"
  /\ transliterationReCache["LONG"] # NoRe
  /\ inputs[1] = <<"a", "b">>
  /\ results[1].value = <<"y">>

(***************************************************************************)
(* The run of the table compiler from its start: ICU_DIR, the directory,   *)
(* the bucket loop                                                         *)
(***************************************************************************)
\* the number of files of the rule directory
MaxFiles == 3

\* the names of the files of the rule directory
FileNames == {"Deva_InterIndic.txt", "Grek_Latn.txt", "Hani_Latn.txt",
              "InterIndic_Latin.txt", "Latin_ASCII.txt"}

\* the names in the order of a.localeCompare(b, "en-US")
NameOrder == <<"Deva_InterIndic.txt", "Grek_Latn.txt", "Hani_Latn.txt",
               "InterIndic_Latin.txt", "Latin_ASCII.txt">>

NameRank(name) == CHOOSE i \in 1..Len(NameOrder) : NameOrder[i] = name

\* entry.name.match(re) for the three patterns: /_InterIndic\.txt$/,
\* /(?<!Grek)(?:_Latn|_Latin|_Latn_BGN)\.txt$/ and /^Latin_ASCII\.txt$/
Matches(re, name) ==
  CASE re = "InterIndic"  -> name = "Deva_InterIndic.txt"
    [] re = "Latn"        -> name \in {"Hani_Latn.txt", "InterIndic_Latin.txt"}
    [] re = "Latin_ASCII" -> name = "Latin_ASCII.txt"

Reverse(s) == [i \in 1..Len(s) |-> s[Len(s) + 1 - i]]

\* the patterns as the array literal lists them
MappingSteps == <<"InterIndic", "Latn", "Latin_ASCII">>

\* the array is used as written, without .reverse()
mappingStepFileNameRegexesForward == MappingSteps

\* [...].reverse()
mappingStepFileNameRegexes == Reverse(MappingSteps)

Rule(l, r) == [lhs |-> <<l>>, rhs |-> r]

\* what the parser yields for a file: the contents a file of each name may
\* have
FileContents(name) ==
  CASE name = "Deva_InterIndic.txt" ->
         {<<Rule(<<"han">>, <<"sigma">>)>>}
    [] name = "Grek_Latn.txt" ->
         {<<Rule(<<"sigma">>, <<"1">>)>>}
    [] name = "Hani_Latn.txt" ->
         {<<Rule(<<"sigma">>, <<"b">>)>>, <<Rule(<<"han">>, <<"b", "acute">>)>>}
    [] name = "InterIndic_Latin.txt" ->
         {<<Rule(<<"sigma">>, <<"aacute">>)>>, <<Rule(<<"sigma">>, <<"x">>)>>}
    [] name = "Latin_ASCII.txt" ->
         {<<Rule(<<"aacute">>, <<"a">>)>>,
          <<Rule(<<"b", "acute">>, <<"b">>), Rule(<<"aacute">>, <<"a">>)>>}

\* the files a directory may hold
Files ==
  UNION {{[name |-> n, lines |-> c] : c \in FileContents(n)} : n \in FileNames}

\* what Deno.readDir may yield: files with different names, in any order
Directories ==
  {d \in SeqsUpTo(Files, MaxFiles) :
     \A i, j \in 1..Len(d) : i # j => d[i].name # d[j].name}

RECURSIVE InsertByName(_, _)
InsertByName(f, sorted) ==
  IF sorted = <<>> THEN <<f>>
  ELSE IF NameRank(Head(sorted).name) <= NameRank(f.name)
       THEN <<Head(sorted)>> \o InsertByName(f, Tail(sorted))
       ELSE <<f>> \o sorted

RECURSIVE SortDirEntriesFrom(_)
SortDirEntriesFrom(entries) ==
  IF entries = <<>> THEN <<>>
  ELSE InsertByName(entries[Len(entries)],
                    SortDirEntriesFrom(SubSeq(entries, 1, Len(entries) - 1)))

\* the entries stay in the order readDir gave
SortDirEntriesNone(entries) == entries

\* (await Array.fromAsync(Deno.readDir(dir))).sort((a, b) =>
\*   sortAlphabetical(a.name, b.name))
SortDirEntries(entries) == SortDirEntriesFrom(entries)

RECURSIVE MatchedFiles(_, _)
\* for each pattern in turn, dirEntries.filter((entry) =>
\* entry.name.match(re)): the files in the order the loops read them
MatchedFiles(res, entries) ==
  IF res = <<>> THEN <<>>
  ELSE SelectSeq(entries, LAMBDA f : Matches(Head(res), f.name))
         \o MatchedFiles(Tail(res), entries)

RECURSIVE InsertLines(_, _)
\* the loop over result.lines of one file
InsertLines(entries, ls) ==
  IF ls = <<>> THEN entries
  ELSE InsertLines(InsertLhs(entries, Head(ls).lhs, Head(ls).rhs), Tail(ls))

RECURSIVE InsertFiles(_, _)
InsertFiles(entries, files) ==
  IF files = <<>> THEN entries
  ELSE InsertFiles(InsertLines(entries, Head(files).lines), Tail(files))

\* map after the loops over the patterns, the files and the lines
ForwardMap(entries) ==
  InsertFiles(<<>>, MatchedFiles(mappingStepFileNameRegexes,
                                 SortDirEntries(entries)))

\* out, as the run computes it from the entries readDir gave
Compile(entries) == SerializeTable(FilterEntries(ForwardMap(entries)))

BuildInit ==
  /\ SlugIdle
  /\ ConcIdle
  /\ icuDir \in {"set", "unset"}
  /\ dirEntries \in Directories
  /\ queue = <<>>
  /\ current = "none"
  /\ stage = "start"
  /\ lines = <<>>
  /\ map = <<>>
  /\ out = <<>>
  /\ charMap = <<>>
  /\ rederived = <<>>

\* Deno.env.get("ICU_DIR"), the throw when it is not set, readDir and the
\* sort of the entries
ReadDir ==
  /\ stage = "start"
  /\ IF icuDir = "unset"
     THEN /\ stage' = "aborted"
          /\ UNCHANGED <<dirEntries, queue>>
     ELSE /\ stage' = "insert"
          /\ dirEntries' = SortDirEntries(dirEntries)
          /\ queue' = MatchedFiles(mappingStepFileNameRegexes, dirEntries')
  /\ UNCHANGED <<icuDir, current, lines, map, out, charMap, rederived,
                 slugVars, concVars>>

\* the next matched file is read and parsed
ReadFile ==
  /\ stage = "insert"
  /\ lines = <<>>
  /\ queue # <<>>
  /\ current' = Head(queue).name
  /\ lines' = Head(queue).lines
  /\ queue' = Tail(queue)
  /\ UNCHANGED <<icuDir, dirEntries, stage, map, out, charMap, rederived,
                 slugVars, concVars>>

BuildNext == ReadDir \/ ReadFile \/ InsertLine \/ FilterMap \/ WriteTable

BuildSpec == BuildInit /\ [][BuildNext]_vars

DirNames == {dirEntries[i].name : i \in 1..Len(dirEntries)}

\* C13: when ICU_DIR is not set, or Latin_ASCII.txt is missing from the
\* directory, the run aborts with an error and map.json is never written;
\* map.json is written only after every rule file has been read and
\* processed.
C13_FailureSemantics ==
  /\ (icuDir = "unset" \/ "Latin_ASCII.txt" \notin DirNames) =>
       /\ stage \notin {"filter", "written"}
       /\ out = <<>>
  /\ stage = "written" => queue = <<>> /\ lines = <<>>

\* the orders in which readDir may yield the files of the directory
Enumerations ==
  {d \in Directories :
     /\ Len(d) = Len(dirEntries)
     /\ {d[i] : i \in 1..Len(d)} = {dirEntries[i] : i \in 1..Len(dirEntries)}}

\* C14: for a fixed set of rule files, the table a run writes is the table
\* of a run that receives the directory entries in any other order: the
\* same targets in the same order, each with the same keys in the same
\* order.
C14_Deterministic ==
  stage = "written" => \A d \in Enumerations : Compile(d) = out

\* a table was written from a directory in which two script-to-Latin files
\* give different targets for the same key
C14_Witness ==
  /\ stage = "written"
  /\ \E i, j \in 1..Len(dirEntries) :
       /\ dirEntries[i] =
            [name |-> "Hani_Latn.txt",
             lines |-> <<Rule(<<"sigma">>, <<"b">>)>>]
       /\ dirEntries[j] =
            [name |-> "InterIndic_Latin.txt",
             lines |-> <<Rule(<<"sigma">>, <<"x">>)>>]
  /\ out = <<<<<<"x">>, <<"sigma">>>>>>

(***************************************************************************)
(* The entries the filter stage lets through                               *)
(***************************************************************************)
\* the filter loop has run
Filtered == stage \in {"filter", "written", "loaded", "rederived"}

\* a string of one or more characters of [A-Za-z0-9-]
IsAsciiTarget(v) == v # <<>> /\ \A i \in 1..Len(v) : IsAsciiWord(v[i])

\* C15: every entry that survives the filter stage has a non-empty source
\* key and a non-empty target made only of characters of [A-Za-z0-9-]; no
\* entry with an empty key, an empty target or a target with any other
\* character reaches the written table.
C15_FilterInvariants ==
  /\ Filtered =>
       \A i \in 1..Len(map) : map[i][1] # <<>> /\ IsAsciiTarget(map[i][2])
  /\ \A i \in 1..Len(out) :
       /\ IsAsciiTarget(out[i][1])
       /\ \A j \in 1..Len(Split(out[i][2])) : Split(out[i][2])[j] # <<>>

\* two entries with different targets survived the filter and were written
C15_Witness ==
  /\ stage = "written"
  /\ Len(map) = 2
  /\ map[1][2] # map[2][2]
  /\ Len(out) = 2

(***************************************************************************)
(* The order of the buckets                                                *)
(***************************************************************************)
\* the bucket of a file: 1 for (a), the intermediate-script rules, 2 for
\* (b), the script-to-Latin rules, 3 for (c), the Latin-to-ASCII rules, and
\* 0 for a file no pattern matches
Bucket(name) ==
  IF Matches("InterIndic", name) THEN 1
  ELSE IF Matches("Latn", name) THEN 2
  ELSE IF Matches("Latin_ASCII", name) THEN 3
  ELSE 0

\* the buckets of the files that are still to be read
QueuedBuckets == {Bucket(queue[i].name) : i \in 1..Len(queue)}

\* a file has been read and its records are being inserted, or have been
Inserting == stage = "insert" /\ current # "none"

\* the claim as stated: every record of a bucket (a) file is inserted
\* before any record of a bucket (b) file, and every record of a bucket (b)
\* file before any record of the bucket (c) file
C16_Original ==
  Inserting => \A b \in QueuedBuckets : b >= Bucket(current)

\* C16: the compiler applies the buckets in the order (c), (b), (a): every
\* record of the bucket (c) file is inserted into the map before any record
\* of a bucket (b) file, and every record of a bucket (b) file before any
\* record of a bucket (a) file.
C16_BucketOrder ==
  Inserting => \A b \in QueuedBuckets : b <= Bucket(current)

\* the records of a file of each bucket have been inserted, those of the
\* bucket (a) file last
C16_Witness ==
  /\ Inserting
  /\ {"Deva_InterIndic.txt", "InterIndic_Latin.txt", "Latin_ASCII.txt"}
       \subseteq DirNames
  /\ current = "Deva_InterIndic.txt"
  /\ lines = <<>>
  /\ queue = <<>>
  /\ Len(map) >= 3

(***************************************************************************)
(* Chains of rules across the stages                                       *)
(***************************************************************************)
\* the rules of the files the bucket loop reads, as the insertion loop
\* sees them: the normalized source, the normalized target and the stage
\* (the bucket of the file)
CorpusRules ==
  {r \in UNION {UNION {{[x |-> normalize(dirEntries[f].lines[l].lhs[k]),
                         y |-> normalize(dirEntries[f].lines[l].rhs),
                         stage |-> Bucket(dirEntries[f].name)] :
                          k \in 1..Len(dirEntries[f].lines[l].lhs)} :
                       l \in 1..Len(dirEntries[f].lines)} :
                  f \in 1..Len(dirEntries)} :
     r.stage > 0 /\ r.x # <<>>}

\* the rules with the source k
RulesFor(k) == {r \in CorpusRules : r.x = k}

\* every record of every matched file has been inserted
AllInserted ==
  /\ stage = "insert"
  /\ current # "none"
  /\ queue = <<>>
  /\ lines = <<>>

\* r1 and r2 are the only rules for their sources, r2 belongs to a later
\* stage and starts where r1 ends
Links(r1, r2) ==
  /\ r1.stage < r2.stage
  /\ r1.y = r2.x
  /\ RulesFor(r1.x) = {r1}
  /\ RulesFor(r2.x) = {r2}

\* C17: when an earlier-stage rule maps x to y and a later-stage rule maps
\* y to z (and, for a chain of three stages, a rule of the last stage maps
\* z to w), these being the only rules for x, y and z, the map after all
\* buckets are processed maps x to the final target of the chain and not
\* to the intermediate y.
C17_ChainTelescopes ==
  AllInserted =>
    \A r1, r2 \in CorpusRules :
      Links(r1, r2) =>
        /\ RulesFor(r2.y) = {} =>
             HasKey(map, r1.x) /\ MapGet(map, r1.x) = r2.y
        /\ \A r3 \in CorpusRules :
             (Links(r2, r3) /\ RulesFor(r3.y) = {}) =>
               HasKey(map, r1.x) /\ MapGet(map, r1.x) = r3.y

\* a chain of three stages (han -> sigma, sigma -> a with an acute accent,
\* that letter -> a) was inserted and the native key maps to the ASCII
\* target
C17_Witness ==
  /\ AllInserted
  /\ \E r1, r2, r3 \in CorpusRules :
       /\ Links(r1, r2) /\ Links(r2, r3) /\ RulesFor(r3.y) = {}
       /\ r1.x = <<"han">>
       /\ r3.y = <<"a">>
  /\ MapGet(map, <<"han">>) = <<"a">>

\* a string made only of ASCII letters, digits and hyphens
IsAsciiOnly(str) == \A i \in 1..Len(str) : IsAsciiWord(str[i])

\* C18: after the filter stage the map holds no entry whose source key and
\* whose target both consist solely of ASCII letters, digits and hyphens.
C18_NoNoOpEntry ==
  Filtered =>
    \A i \in 1..Len(map) : ~(IsAsciiOnly(map[i][1]) /\ IsAsciiOnly(map[i][2]))

(***************************************************************************)
(* The tokens the transliteration stage sees                               *)
(***************************************************************************)
\* config, as the last call built it
ActiveConfig ==
  IF options.charMap # Absent
  THEN [transliterate |-> TRUE, charMap |-> ActiveEntries, re |-> ActiveRe]
  ELSE [transliterate |-> FALSE]

\* the tokens of the last call: words
InputWords == Words(InputSegments)

\* C19: transliteration is applied only to word-like tokens: a hyphen token
\* that stands for a separator span passes through the transliteration
\* stage unchanged, for every char map, one with "-" among its keys
\* included.
C19_HyphenTokenUntouched ==
  (Returned /\ options.charMap # Absent) =>
    \A i \in 1..Len(InputSegments) :
      ~InputSegments[i].isWordLike =>
        /\ InputWords[i] = <<Hyphen>>
        /\ convertWord(InputWords[i], ActiveConfig) = <<Hyphen>>

\* the key k stands at some position of the token t
OccursIn(k, t) ==
  \E i \in 1..(Len(t) - Len(k) + 1) : SubSeq(t, i, i + Len(k) - 1) = k

\* the end of the token t1 followed by the start of the token t2 spells k
SpelledAcross(k, t1, t2) ==
  \E n \in 1..(Len(k) - 1) :
    /\ n <= Len(t1)
    /\ Len(k) - n <= Len(t2)
    /\ SubSeq(t1, Len(t1) - n + 1, Len(t1)) = SubSeq(k, 1, n)
    /\ SubSeq(t2, 1, Len(k) - n) = SubSeq(k, n + 1, Len(k))

\* k is spelled across the boundary of two tokens of the last call, next
\* to each other or with a separator token between them, and stands
\* inside no token
OnlyAcrossTokens(k) ==
  LET words == InputWords
  IN  /\ Len(k) >= 2
      /\ \A i \in 1..Len(words) : ~OccursIn(k, words[i])
      /\ \/ \E i \in 1..(Len(words) - 1) :
              SpelledAcross(k, words[i], words[i + 1])
         \/ \E i \in 1..(Len(words) - 2) :
              /\ ~InputSegments[i + 1].isWordLike
              /\ SpelledAcross(k, words[i], words[i + 2])

\* the char map of the last call without the key k
WithoutKey(k) ==
  [charMaps EXCEPT
     ![options.charMap] = SelectSeq(@, LAMBDA e : e[1] # k)]

\* C20: transliteration works token by token: when the end of one token
\* followed by the start of the next token spells a multi-character key,
\* with or without a separator between the two tokens, no substitution of
\* that key happens: the call returns what it returns for the char map
\* without the key.
C20_NoKeyAcrossTokens ==
  (Returned /\ options.charMap # Absent) =>
    \A e \in 1..Len(ActiveEntries) :
      OnlyAcrossTokens(ActiveEntries[e][1]) =>
        result = slugify(input, options, WithoutKey(ActiveEntries[e][1]),
                         EmptyCache).value

\* a letter followed by an ideograph, two tokens with no separator between
\* them, spell a key and were not substituted
C20_Witness ==
  /\ Returned
  /\ options.charMap = "SPAN"
  /\ input = <<"a", "han", "b">>
  /\ OnlyAcrossTokens(<<"a", "han">>)
  /\ result = <<"a", Hyphen, "x">>

\* ---------------------------------------------------------------------
\* Stripping inside a word
\* ---------------------------------------------------------------------

\* the tokens of the last call after conversion, each with the code points
\* the strip pattern matches left out and nothing put in their place
StrippedTokens ==
  [i \in 1..Len(InputWords) |->
     Kept(convertWord(InputWords[i], ActiveConfig))]

\* some token of the last call is word-like and holds, between two code
\* points that are kept, one that the strip pattern matches
StripsInsideWord ==
  \E i \in 1..Len(InputSegments) :
    /\ InputSegments[i].isWordLike
    /\ LET w == convertWord(InputSegments[i].segment, ActiveConfig)
       IN  \E j \in 2..(Len(w) - 1) :
             /\ w[j] \in ExpectedStrip.matches
             /\ w[j - 1] \notin ExpectedStrip.matches
             /\ w[j + 1] \notin ExpectedStrip.matches

C22_LiteralKeys ==
  (calls >= 1 /\ options.charMap # Absent /\ ActiveEntries # <<>>) =>
    LET re == NewTransliterationRe(ActiveEntries)
    IN  /\ re # SyntaxError
        /\ \A t \in 1..Len(InputWords) :
             \A i \in 1..Len(InputWords[t]) :
               LET w == InputWords[t]
                   n == MatchLenAt(re, w, i)
               IN  /\ n > 0 => HasKey(ActiveEntries, SubSeq(w, i, i + n - 1))
                   /\ (\E k \in 1..Len(ActiveEntries) :
                         KeyAt(ActiveEntries[k][1], w, i)) => n > 0

\* ---------------------------------------------------------------------
\* Resolution of the map at the end of the insertion
\* ---------------------------------------------------------------------

\* the insertion loop has run to its end and the filter loop has not begun
InsertionDone ==
  /\ stage = "insert"
  /\ lines = <<>>
  /\ queue = <<>>

\* C24: after every record is inserted and before the filter stage the map
\* is fully resolved: no entry's target is itself a key of the map that
\* maps to a different value, whatever the rules and whatever their order
\* (the rule y -> z after the rule x -> y included).
C24_FullyResolved ==
  InsertionDone =>
    \A i \in 1..Len(map) :
      HasKey(map, map[i][2]) => MapGet(map, map[i][2]) = map[i][2]

====
